---- MODULE Spec2Model ----
(***************************************************************************)
(* Markdown document converter (factory-method demo).                      *)
(*                                                                         *)
(* A JavaScript string is modelled as a sequence of one-character strings, *)
(* so that split, trim, startsWith, substring and the regular expressions  *)
(* of the exporters are computed character by character.                   *)
(***************************************************************************)
EXTENDS Integers, Sequences, FiniteSets, TLC

VARIABLES
    \* inline emphasis scan (parseInlineFormatting, one loop iteration a step)
    impl, text, remaining, segments, scanPc, lastStep,
    \* whole-document parsing (parseMarkdown, parseMarkdownToDocx, stripMarkdown)
    which, content, pdfLines, docxParas, txtOut, parsePc,
    \* page layout of PDFExporter.export (one line of lines.forEach a step)
    yPosition, pageCount, pdfPc, lastType, yBefore, pagesBefore, drawnAt,
    \* the page: the calls of handleExport so far, and the files downloaded
    calls, downloads

scanVars == <<impl, text, remaining, segments, scanPc, lastStep>>
parseVars == <<which, content, pdfLines, docxParas, txtOut, parsePc>>
appVars == <<calls, downloads>>
pdfVars == <<yPosition, pageCount, pdfPc, lastType, yBefore, pagesBefore, drawnAt>>
vars == <<impl, text, remaining, segments, scanPc, lastStep,
          which, content, pdfLines, docxParas, txtOut, parsePc,
          yPosition, pageCount, pdfPc, lastType, yBefore, pagesBefore, drawnAt,
          calls, downloads>>

----------------------------------------------------------------------------
(* Bounds of the model *)

\* longest enumerated paragraph text handed to the inline emphasis scan
MaxTextLen == 7
\* longest enumerated document content
MaxContentLen == 5
\* most pages PDFExporter adds to one document
MaxPages == 2
\* most words of one paragraph
MaxWords == 3
\* most clicks on the export button
MaxClicks == 2
\* longest paragraph text the scan is started on under fairness
MaxFairLen == 3

----------------------------------------------------------------------------
(* Each part of the program is explored by a specification of its own; the *)
(* variables of the other parts then rest in these values.                 *)

ScanIdle ==
    /\ impl = "none" /\ text = <<>> /\ remaining = <<>> /\ segments = <<>>
    /\ scanPc = "off" /\ lastStep = "none"

ParseIdle ==
    /\ which = "none" /\ content = <<>> /\ pdfLines = <<>> /\ docxParas = <<>>
    /\ txtOut = <<>> /\ parsePc = "off"

PdfIdle ==
    /\ yPosition = 0 /\ pageCount = 0 /\ pdfPc = "off" /\ lastType = "none"
    /\ yBefore = 0 /\ pagesBefore = 0 /\ drawnAt = <<>>

AppIdle == calls = <<>> /\ downloads = <<>>

----------------------------------------------------------------------------
(* Strings *)

Min(S) == CHOOSE x \in S : \A y \in S : x <= y

\* all sequences over A of length exactly n / at most n
RECURSIVE SeqsOfLen(_, _)
SeqsOfLen(A, n) ==
    IF n = 0 THEN {<<>>}
    ELSE {Append(s, c) : s \in SeqsOfLen(A, n - 1), c \in A}

SeqsUpTo(A, n) == UNION {SeqsOfLen(A, k) : k \in 0..n}

\* String.prototype.substring(from) and substring(from, to), 0-based
SubstringFrom(s, from) == SubSeq(s, from + 1, Len(s))
Substring(s, from, to) == SubSeq(s, from + 1, to)

\* String.prototype.startsWith
StartsWith(s, p) == Len(s) >= Len(p) /\ SubSeq(s, 1, Len(p)) = p

\* white space as String.prototype.trim and \s see it
IsSpace(c) == c \in {" ", "\n", "\t"}

\* the regular expression "." matches any character but a line terminator
IsDot(c) == c # "\n"

\* String.prototype.trim
Trim(s) ==
    LET keep == {i \in 1..Len(s) : ~IsSpace(s[i])}
    IN  IF keep = {} THEN <<>>
        ELSE SubSeq(s, Min(keep), CHOOSE i \in keep : \A j \in keep : j <= i)

\* String.prototype.split('\n') and split(' '): one piece more than separators
RECURSIVE Split(_, _)
Split(s, sep) ==
    LET at == {i \in 1..Len(s) : s[i] = sep}
    IN  IF at = {} THEN <<s>>
        ELSE <<SubSeq(s, 1, Min(at) - 1)>> \o Split(SubSeq(s, Min(at) + 1, Len(s)), sep)

----------------------------------------------------------------------------
(* The two regular expressions of parseInlineFormatting.  A match is the   *)
(* leftmost start at which the pattern matches, and from that start the    *)
(* shortest inner text (the group is non-greedy).                          *)

NoMatch == [found |-> FALSE, index |-> 0, whole |-> <<>>, inner |-> <<>>]

\* inner lengths k for which /\*\*(.+?)\*\*/ matches at 1-based position p
BoldLens(s, p) ==
    {k \in 1..Len(s) :
        /\ p + 3 + k <= Len(s)
        /\ s[p] = "*" /\ s[p + 1] = "*"
        /\ \A j \in (p + 2)..(p + 1 + k) : IsDot(s[j])
        /\ s[p + 2 + k] = "*" /\ s[p + 3 + k] = "*"}

\* remaining.match(/\*\*(.+?)\*\*/)
BoldMatch(s) ==
    LET starts == {p \in 1..Len(s) : BoldLens(s, p) # {}}
    IN  IF starts = {} THEN NoMatch
        ELSE LET p == Min(starts)
                 k == Min(BoldLens(s, p))
             IN  [found |-> TRUE, index |-> p - 1,
                  whole |-> SubSeq(s, p, p + 3 + k),
                  inner |-> SubSeq(s, p + 2, p + 1 + k)]

\* inner lengths k for which /(?<!\*)\*(?!\*)(.+?)(?<!\*)\*(?!\*)/ matches at p
ItalicLens(s, p) ==
    {k \in 1..Len(s) :
        /\ p + 1 + k <= Len(s)
        /\ s[p] = "*"
        /\ (p = 1 \/ s[p - 1] # "*")
        /\ s[p + 1] # "*"
        /\ \A j \in (p + 1)..(p + k) : IsDot(s[j])
        /\ s[p + 1 + k] = "*"
        /\ s[p + k] # "*"
        /\ (p + 1 + k = Len(s) \/ s[p + 2 + k] # "*")}

\* remaining.match(/(?<!\*)\*(?!\*)(.+?)(?<!\*)\*(?!\*)/)
ItalicMatch(s) ==
    LET starts == {p \in 1..Len(s) : ItalicLens(s, p) # {}}
    IN  IF starts = {} THEN NoMatch
        ELSE LET p == Min(starts)
                 k == Min(ItalicLens(s, p))
             IN  [found |-> TRUE, index |-> p - 1,
                  whole |-> SubSeq(s, p, p + 1 + k),
                  inner |-> SubSeq(s, p + 1, p + k)]

----------------------------------------------------------------------------
(* parseInlineFormatting: the body of the while loop.  PDFExporter pushes   *)
(* segments {text, bold?, italic?}, DOCXExporter pushes TextRuns built from *)
(* {text, bold?, italics?}; an absent flag is FALSE.                       *)

\* mutant: the DOCX copy names the flag italic, which TextRun does not know,
\* so its italic runs stay upright
Seg_DocxItalicUnknown(i, t, b, it) ==
    IF i = "docx" THEN [text |-> t, bold |-> b, italics |-> FALSE]
    ELSE [text |-> t, bold |-> b, italic |-> it]

Seg(i, t, b, it) ==
    IF i = "docx" THEN [text |-> t, bold |-> b, italics |-> it]
    ELSE [text |-> t, bold |-> b, italic |-> it]

\* mutant: an italic match is preferred whenever there is one
BoldWins_ItalicFirst(boldMatch, italicMatch) ==
    boldMatch.found /\ ~italicMatch.found

\* the if / else-if that picks nextMatch and isBold
BoldWins(boldMatch, italicMatch) ==
    boldMatch.found /\ (~italicMatch.found \/ boldMatch.index <= italicMatch.index)

NextMatch(boldMatch, italicMatch) ==
    IF BoldWins(boldMatch, italicMatch) THEN boldMatch
    ELSE IF italicMatch.found THEN italicMatch
    ELSE NoMatch

\* mutant: the styled segment holds the whole match, markers included
MatchSegments_WholeMatch(i, rem, nextMatch, isBold) ==
    (IF nextMatch.index > 0
        THEN <<Seg(i, Substring(rem, 0, nextMatch.index), FALSE, FALSE)>>
        ELSE <<>>)
    \o <<Seg(i, nextMatch.whole, isBold, ~isBold)>>

\* the segments pushed for a match: the text before it, then the styled text
MatchSegments(i, rem, nextMatch, isBold) ==
    (IF nextMatch.index > 0
        THEN <<Seg(i, Substring(rem, 0, nextMatch.index), FALSE, FALSE)>>
        ELSE <<>>)
    \o <<Seg(i, nextMatch.inner, isBold, ~isBold)>>

\* mutant: the rest starts at the match, not behind it
AfterMatch_FromMatch(rem, nextMatch) ==
    SubstringFrom(rem, nextMatch.index)

\* remaining.substring(nextMatch.index + nextMatch[0].length)
AfterMatch(rem, nextMatch) ==
    SubstringFrom(rem, nextMatch.index + Len(nextMatch.whole))

\* mutant: the rest of the text is forgotten
RestSegments_Dropped(i, rem) == <<>>

\* the segments pushed when nothing matches
RestSegments(i, rem) ==
    IF Len(rem) > 0 THEN <<Seg(i, rem, FALSE, FALSE)>> ELSE <<>>

\* one iteration: the new remaining, the segments pushed, and whether it broke
LoopBody(i, rem) ==
    LET boldMatch == BoldMatch(rem)
        italicMatch == ItalicMatch(rem)
        nextMatch == NextMatch(boldMatch, italicMatch)
        isBold == BoldWins(boldMatch, italicMatch)
    IN  IF nextMatch.found /\ Len(nextMatch.inner) > 0
        THEN [remaining |-> AfterMatch(rem, nextMatch),
              pushed |-> MatchSegments(i, rem, nextMatch, isBold),
              broke |-> FALSE, bold |-> isBold, index |-> nextMatch.index,
              whole |-> nextMatch.whole]
        ELSE [remaining |-> rem,
              pushed |-> RestSegments(i, rem),
              broke |-> TRUE, bold |-> FALSE, index |-> 0, whole |-> <<>>]

\* the while loop, run to its end
RECURSIVE ScanLoop(_, _, _)
ScanLoop(i, rem, segs) ==
    IF Len(rem) = 0 THEN segs
    ELSE LET r == LoopBody(i, rem)
         IN  IF r.broke THEN segs \o r.pushed
             ELSE ScanLoop(i, r.remaining, segs \o r.pushed)

\* the return statement: PDFExporter returns the segments, DOCXExporter
\* replaces an empty list of runs by one run with empty text
ReturnValue(i, segs) ==
    IF i = "docx" /\ Len(segs) = 0 THEN <<Seg(i, <<>>, FALSE, FALSE)>> ELSE segs

\* PDFExporter.parseInlineFormatting
PdfParseInlineFormatting(t) == ReturnValue("pdf", ScanLoop("pdf", t, <<>>))

\* DOCXExporter.parseInlineFormatting
DocxParseInlineFormatting(t) == ReturnValue("docx", ScanLoop("docx", t, <<>>))

----------------------------------------------------------------------------
(* Page layout of PDFExporter.  Lengths are in half millimetres, so that   *)
(* lineHeight * 1.5 and lineHeight / 2 are whole numbers: 20 mm is 40.     *)

\* let yPosition = 20, and yPosition = 20 after doc.addPage()
TopMargin == 40
\* const lineHeight = 7
LineHeight == 14
\* doc.internal.pageSize.height of new jsPDF(): A4 portrait, 297 mm
PageHeight == 594
\* the 20 of yPosition > pageHeight - 20
BottomMargin == 40
\* the x = 20 handed to renderParagraphWithFormatting
LeftMargin == 40
\* const maxWidth = 170
MaxWidth == 340

\* mutant: the page is left only past its very end
NeedsNewPage_PastPageEnd(y) == y > PageHeight

\* if (yPosition > pageHeight - 20)
NeedsNewPage(y) == y > PageHeight - BottomMargin

\* words.forEach of renderParagraphWithFormatting over the measured widths of
\* the words of all segments: the cursor after them and where each was drawn
RECURSIVE PlaceWords(_, _, _, _)
PlaceWords(words, currentX, currentY, drawn) ==
    IF words = <<>> THEN [y |-> currentY, drawn |-> drawn]
    ELSE LET wordWidth == Head(words)
             wrap == currentX + wordWidth > LeftMargin + MaxWidth
             x == IF wrap THEN LeftMargin ELSE currentX
             y == IF wrap THEN currentY + LineHeight ELSE currentY
         IN  PlaceWords(Tail(words), x + wordWidth, y, Append(drawn, y))

\* renderParagraphWithFormatting: return currentY + lineHeight
RenderParagraphWithFormatting(words, y) ==
    LET r == PlaceWords(words, LeftMargin, y, <<>>)
    IN  [y |-> r.y + LineHeight, drawn |-> r.drawn]

\* the body of lines.forEach after the page check, for a line that starts at y
RenderLine(type, words, y) ==
    CASE type = "h1" -> [y |-> y + LineHeight * 2, drawn |-> <<y>>]
      [] type = "h2" -> [y |-> y + (LineHeight * 3) \div 2, drawn |-> <<y>>]
      [] type = "paragraph" -> RenderParagraphWithFormatting(words, y)
      [] OTHER -> [y |-> y + LineHeight \div 2, drawn |-> <<>>]

\* results of doc.getTextWidth for a word of a paragraph: a short word, a
\* word of 100 mm, a word wider than the 170 mm of a row
WordWidths == {60, 200, 360}

ParagraphWords == {w \in SeqsUpTo(WordWidths, MaxWords) : Len(w) > 0}

LineTypes == {"h1", "h2", "paragraph", "empty"}

\* new jsPDF() has one page; let yPosition = 20
InitPdf ==
    /\ yPosition = TopMargin /\ pageCount = 1 /\ pdfPc = "lines"
    /\ lastType = "none" /\ yBefore = 0 /\ pagesBefore = 0 /\ drawnAt = <<>>
    /\ ScanIdle
    /\ ParseIdle
    /\ AppIdle

\* one line of lines.forEach: the page check, then the line; the content was
\* trimmed, so its first line is not empty
PdfRenderLine(type, words) ==
    /\ pdfPc = "lines"
    /\ lastType = "none" => type # "empty"
    /\ NeedsNewPage(yPosition) => pageCount < MaxPages
    /\ LET y == IF NeedsNewPage(yPosition) THEN TopMargin ELSE yPosition
           r == RenderLine(type, words, y)
       IN  /\ yPosition' = r.y
           /\ drawnAt' = r.drawn
    /\ pageCount' = IF NeedsNewPage(yPosition) THEN pageCount + 1 ELSE pageCount
    /\ yBefore' = yPosition
    /\ pagesBefore' = pageCount
    /\ lastType' = type
    /\ UNCHANGED pdfPc
    /\ UNCHANGED scanVars
    /\ UNCHANGED parseVars
    /\ UNCHANGED appVars

\* doc.save('document.pdf'); the last line of a trimmed content is not empty
PdfSave ==
    /\ pdfPc = "lines"
    /\ lastType \notin {"none", "empty"}
    /\ pdfPc' = "saved"
    /\ UNCHANGED <<yPosition, pageCount, lastType, yBefore, pagesBefore, drawnAt>>
    /\ UNCHANGED scanVars
    /\ UNCHANGED parseVars
    /\ UNCHANGED appVars

NextPdf ==
    \/ \E type \in LineTypes \ {"paragraph"} : PdfRenderLine(type, <<>>)
    \/ \E words \in ParagraphWords : PdfRenderLine("paragraph", words)
    \/ PdfSave

SpecPdf == InitPdf /\ [][NextPdf]_vars

----------------------------------------------------------------------------
(* Inputs of the inline emphasis scan.  Both exporters call it with a      *)
(* trimmed, non-empty line that holds no line break.                       *)

ScanChars == {"a", " ", "*"}

\* "**a** and *b*"
ExTieBreak == <<"*", "*", "a", "*", "*", " ", "a", "n", "d", " ", "*", "b", "*">>
\* "**a *b* c**"
ExNested == <<"*", "*", "a", " ", "*", "b", "*", " ", "c", "*", "*">>
\* "***a***"
ExTripled == <<"*", "*", "*", "a", "*", "*", "*">>
\* "This is **bold** and *italic*."
ExSentence == <<"T", "h", "i", "s", " ", "i", "s", " ", "*", "*", "b", "o", "l", "d", "*", "*", " ", "a", "n", "d", " ", "*", "i", "t", "a", "l", "i", "c", "*", ".">>

ExampleTexts == {ExTieBreak, ExNested, ExTripled, ExSentence}

ParagraphTexts ==
    {t \in SeqsUpTo(ScanChars, MaxTextLen) : Len(t) > 0 /\ Trim(t) = t}
    \cup ExampleTexts

Impls == {"pdf", "docx"}

----------------------------------------------------------------------------
(* The scan as a state machine: one loop iteration per step.               *)

InitScan ==
    /\ impl \in Impls
    /\ text \in ParagraphTexts
    /\ remaining = text
    /\ segments = <<>>
    /\ scanPc = "loop"
    /\ lastStep = "none"
    /\ ParseIdle
    /\ PdfIdle
    /\ AppIdle

\* an iteration that finds a bold or an italic span
ScanMatch ==
    /\ scanPc = "loop" /\ Len(remaining) > 0
    /\ LET r == LoopBody(impl, remaining)
       IN  /\ ~r.broke
           /\ remaining' = r.remaining
           /\ segments' = segments \o r.pushed
           /\ lastStep' = (IF r.bold THEN "bold" ELSE "italic")
    /\ UNCHANGED <<impl, text, scanPc>>
    /\ UNCHANGED parseVars
    /\ UNCHANGED pdfVars
    /\ UNCHANGED appVars

\* the iteration that finds no span: push the rest, break, return
ScanRest ==
    /\ scanPc = "loop" /\ Len(remaining) > 0
    /\ LET r == LoopBody(impl, remaining)
       IN  /\ r.broke
           /\ segments' = ReturnValue(impl, segments \o r.pushed)
    /\ scanPc' = "done"
    /\ lastStep' = "rest"
    /\ UNCHANGED <<impl, text, remaining>>
    /\ UNCHANGED parseVars
    /\ UNCHANGED pdfVars
    /\ UNCHANGED appVars

\* the loop condition fails: return
ScanExit ==
    /\ scanPc = "loop" /\ Len(remaining) = 0
    /\ segments' = ReturnValue(impl, segments)
    /\ scanPc' = "done"
    /\ lastStep' = "exit"
    /\ UNCHANGED <<impl, text, remaining>>
    /\ UNCHANGED parseVars
    /\ UNCHANGED pdfVars
    /\ UNCHANGED appVars

NextScan == ScanMatch \/ ScanRest \/ ScanExit

SpecScan == InitScan /\ [][NextScan]_vars

----------------------------------------------------------------------------
(* The replace calls that strip markers: text.replace(/\*\*(.*?)\*\*/g,    *)
(* '$1') and text.replace(/\*(.*?)\*/g, '$1').  Matches are found left to  *)
(* right without overlap; the inner text is the shortest one, may be       *)
(* empty, and holds no line break.                                         *)

AllStars(s, from, n) == \A j \in from..(from + n - 1) : s[j] = "*"

\* inner lengths k for which n markers, k characters, n markers match at p
SpanLens(s, p, n) ==
    {k \in 0..Len(s) :
        /\ p + 2 * n + k - 1 <= Len(s)
        /\ AllStars(s, p, n)
        /\ \A j \in (p + n)..(p + n + k - 1) : IsDot(s[j])
        /\ AllStars(s, p + n + k, n)}

\* s from position from on, each span of n-marker delimiters replaced by '$1'
RECURSIVE ReplaceSpans(_, _, _)
ReplaceSpans(s, from, n) ==
    LET starts == {p \in from..Len(s) : SpanLens(s, p, n) # {}}
    IN  IF starts = {} THEN SubSeq(s, from, Len(s))
        ELSE LET p == Min(starts)
                 k == Min(SpanLens(s, p, n))
             IN  SubSeq(s, from, p - 1) \o SubSeq(s, p + n, p + n + k - 1)
                 \o ReplaceSpans(s, p + 2 * n + k, n)

\* text.replace(/\*\*(.*?)\*\*/g, '$1')
ReplaceBold(s) == ReplaceSpans(s, 1, 2)

\* text.replace(/\*(.*?)\*/g, '$1')
ReplaceItalic(s) == ReplaceSpans(s, 1, 1)

\* PDFExporter.parseMarkdown: "Strip formatting from headings for simplicity"
StripFormatting(t) == ReplaceItalic(ReplaceBold(t))

----------------------------------------------------------------------------
(* PDFExporter.parseMarkdown *)

\* mutant: the line is classified without being trimmed
PdfParseLine_Untrimmed(line) ==
    IF Len(line) = 0 THEN [type |-> "empty", text |-> <<>>]
    ELSE IF StartsWith(line, <<"#", " ">>)
        THEN [type |-> "h1", text |-> StripFormatting(SubstringFrom(line, 2))]
    ELSE IF StartsWith(line, <<"#", "#", " ">>)
        THEN [type |-> "h2", text |-> StripFormatting(SubstringFrom(line, 3))]
    ELSE [type |-> "paragraph", text |-> line]

\* the body of lines.forEach
PdfParseLine(line) ==
    LET trimmed == Trim(line)
    IN  IF Len(trimmed) = 0 THEN [type |-> "empty", text |-> <<>>]
        ELSE IF StartsWith(trimmed, <<"#", " ">>)
            THEN [type |-> "h1", text |-> StripFormatting(SubstringFrom(trimmed, 2))]
        ELSE IF StartsWith(trimmed, <<"#", "#", " ">>)
            THEN [type |-> "h2", text |-> StripFormatting(SubstringFrom(trimmed, 3))]
        ELSE [type |-> "paragraph", text |-> trimmed]

PdfParseMarkdown(c) ==
    LET lines == Split(c, "\n")
    IN  [i \in 1..Len(lines) |-> PdfParseLine(lines[i])]

----------------------------------------------------------------------------
(* DOCXExporter.parseMarkdownToDocx.  A Paragraph node is modelled by the   *)
(* options it is built from: heading ("none" when absent), text, children.  *)

DocxParagraph(h, t, runs) == [heading |-> h, text |-> t, children |-> runs]

\* mutant: a level-2 heading is tagged as level 1
DocxParseLine_OneHeadingLevel(line) ==
    LET trimmed == Trim(line)
    IN  IF Len(trimmed) = 0 THEN DocxParagraph("none", <<>>, <<>>)
        ELSE IF StartsWith(trimmed, <<"#", " ">>)
            THEN DocxParagraph("HEADING_1", SubstringFrom(trimmed, 2), <<>>)
        ELSE IF StartsWith(trimmed, <<"#", "#", " ">>)
            THEN DocxParagraph("HEADING_1", SubstringFrom(trimmed, 3), <<>>)
        ELSE DocxParagraph("none", <<>>, DocxParseInlineFormatting(trimmed))

\* the body of lines.forEach
DocxParseLine(line) ==
    LET trimmed == Trim(line)
    IN  IF Len(trimmed) = 0 THEN DocxParagraph("none", <<>>, <<>>)
        ELSE IF StartsWith(trimmed, <<"#", " ">>)
            THEN DocxParagraph("HEADING_1", SubstringFrom(trimmed, 2), <<>>)
        ELSE IF StartsWith(trimmed, <<"#", "#", " ">>)
            THEN DocxParagraph("HEADING_2", SubstringFrom(trimmed, 3), <<>>)
        ELSE DocxParagraph("none", <<>>, DocxParseInlineFormatting(trimmed))

DocxParseMarkdownToDocx(c) ==
    LET lines == Split(c, "\n")
    IN  [i \in 1..Len(lines) |-> DocxParseLine(lines[i])]

----------------------------------------------------------------------------
(* TXTExporter.stripMarkdown *)

\* ^ under the m flag: the start of the input or just after a line break
LineStart(s, p) == p = 1 \/ s[p - 1] = "\n"

\* the number of # that /^#{1,2}\s+/ takes at p (greedy, with backtracking)
HeadingMarks(s, p) ==
    IF p + 2 <= Len(s) /\ s[p] = "#" /\ s[p + 1] = "#" /\ IsSpace(s[p + 2]) THEN 2
    ELSE IF p + 1 <= Len(s) /\ s[p] = "#" /\ IsSpace(s[p + 1]) THEN 1
    ELSE 0

\* the length of the run of white space that starts at p (\s+ is greedy and
\* runs over line breaks)
RECURSIVE SpaceRun(_, _)
SpaceRun(s, p) ==
    IF p <= Len(s) /\ IsSpace(s[p]) THEN 1 + SpaceRun(s, p + 1) ELSE 0

\* text.replace(/^#{1,2}\s+/gm, ''), from position from on
RECURSIVE RemoveHeadingMarkers(_, _)
RemoveHeadingMarkers(s, from) ==
    LET starts == {p \in from..Len(s) : LineStart(s, p) /\ HeadingMarks(s, p) > 0}
    IN  IF starts = {} THEN SubSeq(s, from, Len(s))
        ELSE LET p == Min(starts)
                 h == HeadingMarks(s, p)
             IN  SubSeq(s, from, p - 1)
                 \o RemoveHeadingMarkers(s, p + h + SpaceRun(s, p + h))

StripMarkdown(c) ==
    Trim(ReplaceItalic(ReplaceBold(RemoveHeadingMarkers(c, 1))))

----------------------------------------------------------------------------
(* Inputs of the exporters.  handleExport hands an exporter content.trim() *)
(* of a content that is not blank.                                         *)

ContentChars == {"a", "*", "#", " ", "\n"}

\* "# Title\n\nThis is **bold** and *italic*."
ExDocument == <<"#", " ", "T", "i", "t", "l", "e", "\n", "\n", "T", "h", "i", "s", " ", "i", "s", " ", "*", "*", "b", "o", "l", "d", "*", "*", " ", "a", "n", "d", " ", "*", "i", "t", "a", "l", "i", "c", "*", ".">>
\* "# **a**"
ExBoldHeading == <<"#", " ", "*", "*", "a", "*", "*">>
\* "## a *b*"
ExItalicHeading == <<"#", "#", " ", "a", " ", "*", "b", "*">>
\* "### X"
ExThreeMarks == <<"#", "#", "#", " ", "X">>
\* "#\nb"
ExLoneMark == <<"#", "\n", "b">>

ExampleContents ==
    {ExDocument, ExBoldHeading, ExItalicHeading, ExThreeMarks, ExLoneMark}

Contents ==
    {c \in SeqsUpTo(ContentChars, MaxContentLen) : Len(c) > 0 /\ Trim(c) = c}
    \cup ExampleContents

Exporters == {"pdf", "docx", "txt"}

----------------------------------------------------------------------------
(* One export of one content by one exporter, up to the parsed structure.  *)

InitParse ==
    /\ which \in Exporters
    /\ content \in Contents
    /\ pdfLines = <<>> /\ docxParas = <<>> /\ txtOut = <<>>
    /\ parsePc = "ready"
    /\ ScanIdle
    /\ PdfIdle
    /\ AppIdle

\* PDFExporter.export: const lines = this.parseMarkdown(content)
PdfParse ==
    /\ parsePc = "ready" /\ which = "pdf"
    /\ pdfLines' = PdfParseMarkdown(content)
    /\ parsePc' = "done"
    /\ UNCHANGED <<which, content, docxParas, txtOut>>
    /\ UNCHANGED scanVars
    /\ UNCHANGED pdfVars
    /\ UNCHANGED appVars

\* DOCXExporter.export: const paragraphs = this.parseMarkdownToDocx(content)
DocxParse ==
    /\ parsePc = "ready" /\ which = "docx"
    /\ docxParas' = DocxParseMarkdownToDocx(content)
    /\ parsePc' = "done"
    /\ UNCHANGED <<which, content, pdfLines, txtOut>>
    /\ UNCHANGED scanVars
    /\ UNCHANGED pdfVars
    /\ UNCHANGED appVars

\* TXTExporter.export: const plainText = this.stripMarkdown(content)
TxtStrip ==
    /\ parsePc = "ready" /\ which = "txt"
    /\ txtOut' = StripMarkdown(content)
    /\ parsePc' = "done"
    /\ UNCHANGED <<which, content, pdfLines, docxParas>>
    /\ UNCHANGED scanVars
    /\ UNCHANGED pdfVars
    /\ UNCHANGED appVars

NextParse == PdfParse \/ DocxParse \/ TxtStrip

SpecParse == InitParse /\ [][NextParse]_vars

----------------------------------------------------------------------------
(* main.ts: getFactory and handleExport.                                   *)

\* String.prototype.toLowerCase, on the letters of the format names
LowerChar(c) ==
    CASE c = "T" -> "t" [] c = "X" -> "x" [] c = "P" -> "p" [] c = "D" -> "d"
      [] c = "F" -> "f" [] c = "O" -> "o" [] c = "C" -> "c" [] c = "R" -> "r"
      [] OTHER -> c

\* mutant: the format is compared as it was typed
ToLowerCase_AsTyped(s) == s

ToLowerCase(s) == [i \in 1..Len(s) |-> LowerChar(s[i])]

\* getFactory: the factory, and the console.error calls it made
GetFactory(format) ==
    LET f == ToLowerCase(format)
    IN  CASE f = <<"t", "x", "t">> -> [factory |-> "TXTExporterFactory", errors |-> 0]
          [] f = <<"p", "d", "f">> -> [factory |-> "PDFExporterFactory", errors |-> 0]
          [] f = <<"d", "o", "c", "x">> ->
                [factory |-> "DOCXExporterFactory", errors |-> 0]
          [] OTHER -> [factory |-> "TXTExporterFactory", errors |-> 1]

\* createExporter of the three concrete factories
CreateExporter(factory) ==
    CASE factory = "TXTExporterFactory" -> "TXTExporter"
      [] factory = "PDFExporterFactory" -> "PDFExporter"
      [] OTHER -> "DOCXExporter"

\* mutant: only the empty content is turned away
IsBlank_EmptyOnly(c) == Len(c) = 0

\* if (!content || content.trim().length === 0)
IsBlank(c) == Len(c) = 0 \/ Len(Trim(c)) = 0

\* the file a synchronous exporter hands to the download, with what it holds
TxtFile(c) == [name |-> "document.txt", body |-> StripMarkdown(c)]
PdfFile(c) == [name |-> "document.pdf", body |-> PdfParseMarkdown(c)]
DocxFile(c) == [name |-> "document.docx", body |-> DocxParseMarkdownToDocx(c)]

\* one call of handleExport, as it is left when the handler returns or is
\* suspended: status is "nodom", "rejected", "done", "packaging" or "failed"
Call(c, f, st, fac, ex, errs, arg) ==
    [content |-> c, format |-> f, status |-> st, factory |-> fac,
     exporter |-> ex, errors |-> errs, exported |-> arg]

\* what the textarea and the select can hold
AppContents ==
    {<<>>, <<" ", "\n">>, <<"a">>, <<" ", "#", " ", "*", "a", "*", "\n">>}

AppFormats ==
    {<<"t", "x", "t">>, <<"T", "X", "T">>, <<"P", "d", "f">>,
     <<"d", "o", "c", "x">>, <<"D", "O", "C", "X">>, <<"r", "t", "f">>}

Init ==
    /\ calls = <<>>
    /\ downloads = <<>>
    /\ ScanIdle
    /\ ParseIdle
    /\ PdfIdle

\* a click while the textarea or the select is missing: console.error, return
HandleExportNoDom ==
    /\ Len(calls) < MaxClicks
    /\ calls' = Append(calls, Call(<<>>, <<>>, "nodom", "none", "none", 1, <<>>))
    /\ UNCHANGED downloads
    /\ UNCHANGED <<scanVars, parseVars, pdfVars>>

\* a click with content c and format f, up to the return of the handler or to
\* its suspension at await Packer.toBlob(doc)
HandleExport(c, f) ==
    /\ Len(calls) < MaxClicks
    /\ IF IsBlank(c)
       THEN /\ calls' = Append(calls, Call(c, f, "rejected", "none", "none", 0, <<>>))
            /\ UNCHANGED downloads
       ELSE LET g == GetFactory(f)
                exporter == CreateExporter(g.factory)
                arg == Trim(c)
                id == Len(calls) + 1
            IN  CASE exporter = "TXTExporter" ->
                        /\ calls' = Append(calls,
                                Call(c, f, "done", g.factory, exporter, g.errors, arg))
                        /\ downloads' = Append(downloads, [call |-> id] @@ TxtFile(arg))
                  [] exporter = "PDFExporter" ->
                        /\ calls' = Append(calls,
                                Call(c, f, "done", g.factory, exporter, g.errors, arg))
                        /\ downloads' = Append(downloads, [call |-> id] @@ PdfFile(arg))
                  [] OTHER ->
                        /\ calls' = Append(calls,
                                Call(c, f, "packaging", g.factory, exporter, g.errors, arg))
                        /\ UNCHANGED downloads
    /\ UNCHANGED <<scanVars, parseVars, pdfVars>>

\* mutant: the document under packaging is shared by the calls, so the file
\* saved for call i holds what the latest call has built
PackerResolve_SharedDocument(i) ==
    /\ i \in 1..Len(calls) /\ calls[i].status = "packaging"
    /\ calls' = [calls EXCEPT ![i].status = "done"]
    /\ downloads' = Append(downloads,
            [call |-> i] @@ DocxFile(calls[Len(calls)].exported))
    /\ UNCHANGED <<scanVars, parseVars, pdfVars>>

\* Packer.toBlob resolves for call i: saveAs(blob, 'document.docx')
PackerResolve(i) ==
    /\ i \in 1..Len(calls) /\ calls[i].status = "packaging"
    /\ calls' = [calls EXCEPT ![i].status = "done"]
    /\ downloads' = Append(downloads, [call |-> i] @@ DocxFile(calls[i].exported))
    /\ UNCHANGED <<scanVars, parseVars, pdfVars>>

\* mutant: the rejected packaging is followed by saveAs all the same
PackerReject_StillSaves(i) ==
    /\ i \in 1..Len(calls) /\ calls[i].status = "packaging"
    /\ calls' = [calls EXCEPT ![i].status = "failed"]
    /\ downloads' = Append(downloads, [call |-> i] @@ DocxFile(calls[i].exported))
    /\ UNCHANGED <<scanVars, parseVars, pdfVars>>

\* Packer.toBlob rejects for call i: export and handleExport reject
PackerReject(i) ==
    /\ i \in 1..Len(calls) /\ calls[i].status = "packaging"
    /\ calls' = [calls EXCEPT ![i].status = "failed"]
    /\ UNCHANGED downloads
    /\ UNCHANGED <<scanVars, parseVars, pdfVars>>

Next ==
    \/ HandleExportNoDom
    \/ \E c \in AppContents, f \in AppFormats : HandleExport(c, f)
    \/ \E i \in 1..MaxClicks : PackerResolve(i)
    \/ \E i \in 1..MaxClicks : PackerReject(i)

Spec == Init /\ [][Next]_vars

----------------------------------------------------------------------------
(* Vocabulary of the claims about the scan *)

\* a styled segment as the claims speak of it, whichever exporter scans
Bold(t) == Seg(impl, t, TRUE, FALSE)
Italic(t) == Seg(impl, t, FALSE, TRUE)
Unstyled(t) == Seg(impl, t, FALSE, FALSE)
IsBold(seg) == seg.bold
IsItalic(seg) == IF "italics" \in DOMAIN seg THEN seg.italics ELSE seg.italic

\* the texts of the segments, concatenated in order
RECURSIVE ConcatTexts(_)
ConcatTexts(segs) ==
    IF segs = <<>> THEN <<>> ELSE Head(segs).text \o ConcatTexts(Tail(segs))

\* s without its marker characters
RECURSIVE RemoveMarkers(_)
RemoveMarkers(s) ==
    IF s = <<>> THEN <<>>
    ELSE (IF Head(s) = "*" THEN <<>> ELSE <<Head(s)>>) \o RemoveMarkers(Tail(s))

HasMarker(s) == \E i \in 1..Len(s) : s[i] = "*"

\* the lengths of the maximal runs of marker characters of s, left to right
RECURSIVE MarkerRuns(_, _)
MarkerRuns(s, run) ==
    IF s = <<>> THEN (IF run > 0 THEN <<run>> ELSE <<>>)
    ELSE IF Head(s) = "*" THEN MarkerRuns(Tail(s), run + 1)
    ELSE (IF run > 0 THEN <<run>> ELSE <<>>) \o MarkerRuns(Tail(s), 0)

\* runs read as brackets: a run closes the open run of its own length, and
\* opens a span otherwise; what is returned is the stack of open runs
RECURSIVE OpenRuns(_, _)
OpenRuns(runs, stack) ==
    IF runs = <<>> THEN stack
    ELSE IF stack # <<>> /\ Head(stack) = Head(runs)
         THEN OpenRuns(Tail(runs), Tail(stack))
         ELSE OpenRuns(Tail(runs), <<Head(runs)>> \o stack)

\* balanced markers: every run of markers is closed by a later run of the same
\* length, properly nested ("**a *b* c**", "***a***", "**a** and *b*")
Balanced(s) == OpenRuns(MarkerRuns(s, 0), <<>>) = <<>>

\* single-level markers: runs of one or two markers that pair up left to right,
\* an opener directly followed by its closer (no nesting, no tripled marker)
SingleLevel(s) ==
    LET runs == MarkerRuns(s, 0)
    IN  /\ Len(runs) % 2 = 0
        /\ \A i \in 1..Len(runs) : runs[i] \in {1, 2}
        /\ \A i \in 1..Len(runs) : i % 2 = 1 => runs[i] = runs[i + 1]

\* the segments' texts rebuild s without its markers, and none holds a marker
Reconstructs(s, segs) ==
    /\ ConcatTexts(segs) = RemoveMarkers(s)
    /\ \A i \in 1..Len(segs) : ~HasMarker(segs[i].text)

----------------------------------------------------------------------------
(* Claims about the inline emphasis scan (SpecScan) *)

\* C3 as stated: for every text with balanced markers, nested and tripled
\* forms included, the scan's segments rebuild the text without its markers
\* and no segment holds a marker character.
C3_BalancedReconstructs ==
    (scanPc = "done" /\ Balanced(text)) => Reconstructs(text, segments)

\* C3 as amended: for every text whose markers are single-level spans (runs
\* of one or two markers pairing up left to right), the scan's segments
\* rebuild the text without its markers and no segment holds a marker.
C3_SingleLevelReconstructs ==
    (scanPc = "done" /\ SingleLevel(text)) => Reconstructs(text, segments)

\* a finished scan of a single-level text with a bold and an italic span
C3_Witness ==
    /\ scanPc = "done" /\ SingleLevel(text) /\ HasMarker(text)
    /\ \E i \in 1..Len(segments) : IsBold(segments[i])
    /\ \E i \in 1..Len(segments) : IsItalic(segments[i])

\* the rule of C4 for one iteration over the unconsumed text rem
C4_Token(rem) ==
    LET b == BoldMatch(rem)
        i == ItalicMatch(rem)
    IN  IF b.found /\ (~i.found \/ b.index <= i.index)
        THEN [m |-> b, bold |-> TRUE] ELSE [m |-> i, bold |-> FALSE]

C4_Step ==
    (scanPc = "loop" /\ Len(remaining) > 0
        /\ (BoldMatch(remaining).found \/ ItalicMatch(remaining).found))
    => LET t == C4_Token(remaining)
           before == SubSeq(remaining, 1, t.m.index)
       IN  /\ segments' = segments
                \o (IF before # <<>> THEN <<Unstyled(before)>> ELSE <<>>)
                \o <<IF t.bold THEN Bold(t.m.inner) ELSE Italic(t.m.inner)>>
           /\ remaining' = SubSeq(remaining, t.m.index + Len(t.m.whole) + 1,
                                  Len(remaining))

\* C4: at every iteration the next token is the earliest bold match when it
\* exists and no italic match starts before it, else the earliest italic
\* match; the text before it is pushed as one unstyled segment if non-empty,
\* then the inner text as a Bold or Italic segment, and the scan resumes just
\* after the matched span; "**a** and *b*" yields Bold a, None " and ", Italic b.
C4_NextToken ==
    /\ [][C4_Step]_vars
    /\ []((scanPc = "done" /\ text = ExTieBreak) =>
            segments = <<Bold(<<"a">>),
                         Unstyled(<<" ", "a", "n", "d", " ">>),
                         Italic(<<"b">>)>>)

\* the scan of "**a** and *b*" has finished, after a bold and an italic token
C4_Witness ==
    scanPc = "done" /\ text = ExTieBreak /\ Len(segments) = 3

\* C5: a non-empty text in which neither pattern matches comes back as exactly
\* one unstyled segment holding the text unchanged.
C5_NoMatchLiteral ==
    (scanPc = "done" /\ ~BoldMatch(text).found /\ ~ItalicMatch(text).found)
    => segments = <<Unstyled(text)>>

\* a finished scan of a text with an unterminated marker
C5_Witness ==
    /\ scanPc = "done" /\ lastStep = "rest" /\ HasMarker(text)
    /\ ~BoldMatch(text).found /\ ~ItalicMatch(text).found

----------------------------------------------------------------------------
(* Vocabulary of the claims about whole documents: the lines of a content, *)
(* their kinds and their texts, as the specification words them.           *)

LineBreaks(c) == {p \in 1..Len(c) : c[p] = "\n"}

LineCount(c) == Cardinality(LineBreaks(c)) + 1

\* the position of the k-th line break of c; 0 before the first line and
\* Len(c) + 1 after the last
BreakAt(c, k) ==
    IF k = 0 THEN 0
    ELSE IF k > Cardinality(LineBreaks(c)) THEN Len(c) + 1
    ELSE CHOOSE p \in LineBreaks(c) :
            Cardinality({q \in LineBreaks(c) : q < p}) = k - 1

\* the i-th '\n'-separated line of c
LineOf(c, i) == SubSeq(c, BreakAt(c, i - 1) + 1, BreakAt(c, i) - 1)

RECURSIVE DropLeadingSpace(_)
DropLeadingSpace(s) ==
    IF s # <<>> /\ IsSpace(Head(s)) THEN DropLeadingSpace(Tail(s)) ELSE s

RECURSIVE DropTrailingSpace(_)
DropTrailingSpace(s) ==
    IF s # <<>> /\ IsSpace(s[Len(s)])
    THEN DropTrailingSpace(SubSeq(s, 1, Len(s) - 1)) ELSE s

Trimmed(s) == DropTrailingSpace(DropLeadingSpace(s))

\* the kind of a trimmed line
KindOf(t) ==
    IF t = <<>> THEN "Empty"
    ELSE IF Len(t) >= 2 /\ t[1] = "#" /\ t[2] = " " THEN "Heading1"
    ELSE IF Len(t) >= 3 /\ t[1] = "#" /\ t[2] = "#" /\ t[3] = " " THEN "Heading2"
    ELSE "Paragraph"

\* the text of a trimmed line: a heading loses its marker prefix
TextOf(t) ==
    IF KindOf(t) = "Heading1" THEN SubSeq(t, 3, Len(t))
    ELSE IF KindOf(t) = "Heading2" THEN SubSeq(t, 4, Len(t))
    ELSE t

MarkerCount(s) == Cardinality({p \in 1..Len(s) : s[p] = "*"})

\* t is r with its emphasis spans reduced to their inner text: only markers
\* were taken out, no pair of markers is left, and r is untouched when it
\* holds no pair of markers
SpansReduced(r, t) ==
    /\ RemoveMarkers(t) = RemoveMarkers(r)
    /\ MarkerCount(t) <= 1
    /\ (MarkerCount(r) <= 1 => t = r)

\* a text that still holds a bold or an italic span
HasSpan(t) == BoldMatch(t).found \/ ItalicMatch(t).found

\* the kind of a parsed line of PDFExporter, of a Paragraph node of DOCXExporter
PdfKind(l) ==
    CASE l.type = "empty" -> "Empty"
      [] l.type = "h1" -> "Heading1"
      [] l.type = "h2" -> "Heading2"
      [] OTHER -> "Paragraph"

DocxKind(p) ==
    CASE p.heading = "HEADING_1" -> "Heading1"
      [] p.heading = "HEADING_2" -> "Heading2"
      [] p.children # <<>> -> "Paragraph"
      [] OTHER -> "Empty"

\* the styled segments of a paragraph text, by the algorithm of the inline
\* emphasis parser: [text, emphasis] with emphasis None, Bold or Italic
RECURSIVE StyledSegments(_)
StyledSegments(rem) ==
    IF rem = <<>> THEN <<>>
    ELSE IF ~HasSpan(rem) THEN <<[text |-> rem, emphasis |-> "None"]>>
    ELSE LET t == C4_Token(rem)
             before == SubSeq(rem, 1, t.m.index)
         IN  (IF before # <<>> THEN <<[text |-> before, emphasis |-> "None"]>>
              ELSE <<>>)
             \o <<[text |-> t.m.inner,
                   emphasis |-> IF t.bold THEN "Bold" ELSE "Italic"]>>
             \o StyledSegments(SubSeq(rem, t.m.index + Len(t.m.whole) + 1, Len(rem)))

----------------------------------------------------------------------------
(* Claims about whole documents (SpecParse) *)

PdfDone == parsePc = "done" /\ which = "pdf"
DocxDone == parsePc = "done" /\ which = "docx"
TxtDone == parsePc = "done" /\ which = "txt"

\* what C1 says of both parsers; the text of a PDF heading is the text after
\* the prefix itself (asStated) or that text with its spans reduced
C1_Lines(asStated) ==
    /\ PdfDone =>
        /\ Len(pdfLines) = LineCount(content)
        /\ \A i \in 1..Len(pdfLines) :
            LET t == Trimmed(LineOf(content, i))
            IN  /\ PdfKind(pdfLines[i]) = KindOf(t)
                /\ IF KindOf(t) \in {"Heading1", "Heading2"}
                   THEN IF asStated THEN pdfLines[i].text = TextOf(t)
                        ELSE SpansReduced(TextOf(t), pdfLines[i].text)
                   ELSE pdfLines[i].text = TextOf(t)
    /\ DocxDone =>
        /\ Len(docxParas) = LineCount(content)
        /\ \A i \in 1..Len(docxParas) :
            LET t == Trimmed(LineOf(content, i))
            IN  /\ DocxKind(docxParas[i]) = KindOf(t)
                /\ KindOf(t) # "Paragraph" => docxParas[i].text = TextOf(t)

C2_HeadingsStripped ==
    /\ PdfDone => \A i \in 1..Len(pdfLines) :
            pdfLines[i].type \in {"h1", "h2"} => ~HasSpan(pdfLines[i].text)
    /\ DocxDone => \A i \in 1..Len(docxParas) :
            docxParas[i].heading # "none" => ~HasSpan(docxParas[i].text)

\* the reference of C7 for one line
ReferenceLine(line) ==
    LET t == Trimmed(line)
    IN  IF KindOf(t) = "Paragraph" THEN ReplaceItalic(ReplaceBold(t))
        ELSE ReplaceItalic(ReplaceBold(TextOf(t)))

\* the lines i.. of c by the reference, joined with line breaks
RECURSIVE ReferenceFrom(_, _)
ReferenceFrom(c, i) ==
    IF i = LineCount(c) THEN ReferenceLine(LineOf(c, i))
    ELSE ReferenceLine(LineOf(c, i)) \o <<"\n">> \o ReferenceFrom(c, i + 1)

\* C7: the plain-text output is the reference: every line trimmed and
\* classified, a heading replaced by its text without the prefix, a paragraph
\* by its text with the spans reduced, joined in order, the whole trimmed.
C7_TxtIsReference ==
    TxtDone => txtOut = Trimmed(ReferenceFrom(content, 1))

\* C8: one Paragraph node per line, in order: an empty paragraph for an Empty
\* line, the heading style and the plain text for a heading, and for a
\* Paragraph line one run per styled segment with the segment's flags, never
\* zero runs (an empty list of runs is replaced by one run with empty text).
C8_DocxNodes ==
    /\ DocxDone =>
        /\ Len(docxParas) = LineCount(content)
        /\ \A i \in 1..Len(docxParas) :
            LET t == Trimmed(LineOf(content, i))
                p == docxParas[i]
                segs == StyledSegments(t)
            IN  CASE KindOf(t) = "Empty" ->
                        p = [heading |-> "none", text |-> <<>>, children |-> <<>>]
                  [] KindOf(t) = "Heading1" ->
                        p = [heading |-> "HEADING_1", text |-> TextOf(t),
                             children |-> <<>>]
                  [] KindOf(t) = "Heading2" ->
                        p = [heading |-> "HEADING_2", text |-> TextOf(t),
                             children |-> <<>>]
                  [] OTHER ->
                        /\ p.heading = "none"
                        /\ Len(p.children) >= 1
                        /\ Len(p.children) = Len(segs)
                        /\ \A j \in 1..Len(segs) :
                            /\ p.children[j].text = segs[j].text
                            /\ p.children[j].bold = (segs[j].emphasis = "Bold")
                            /\ p.children[j].italics = (segs[j].emphasis = "Italic")
    /\ DocxParseInlineFormatting(<<>>) =
            <<[text |-> <<>>, bold |-> FALSE, italics |-> FALSE]>>

\* the DOCX parser has built a heading, an empty paragraph and a paragraph of
\* five runs, bold and italic among them
C8_Witness ==
    /\ DocxDone
    /\ \E i \in 1..Len(docxParas) : docxParas[i].heading = "HEADING_1"
    /\ \E i \in 1..Len(docxParas) : DocxKind(docxParas[i]) = "Empty"
    /\ \E i \in 1..Len(docxParas) :
        /\ Len(docxParas[i].children) = 5
        /\ \E j \in 1..5 : docxParas[i].children[j].bold
        /\ \E j \in 1..5 : docxParas[i].children[j].italics

----------------------------------------------------------------------------
(* Claims about the page layout (SpecPdf) *)

\* where the line rendered last started: at the top of a new page when the
\* cursor had passed the threshold, else where the cursor was
LineStartY ==
    IF yBefore > PageHeight - BottomMargin THEN TopMargin ELSE yBefore

\* exactly one page is added, and the cursor reset, when the cursor has passed
\* the threshold before a line; no page is added otherwise
C6_PageCheck ==
    lastType # "none" =>
        /\ pageCount - pagesBefore =
                (IF yBefore > PageHeight - BottomMargin THEN 1 ELSE 0)
        /\ LineStartY <= PageHeight - BottomMargin
        /\ \A i \in 1..Len(drawnAt) : drawnAt[i] >= LineStartY

\* C6 as stated: nothing is drawn at a cursor beyond page height minus 20, the
\* wrapped rows of a paragraph included, and a cursor beyond it adds exactly
\* one page and is reset to 20 before anything is drawn.
C6_NothingBelowMargin ==
    /\ C6_PageCheck
    /\ \A i \in 1..Len(drawnAt) : drawnAt[i] <= PageHeight - BottomMargin

\* C6 as amended: the check is made once per logical line: a cursor beyond
\* page height minus 20 adds exactly one page and is reset to 20 before the
\* line is drawn, so every line starts, and every heading is drawn, at a cursor
\* within the threshold; the first word of a paragraph is drawn on the starting
\* row or, wrapped, one row below, and later words on the same or lower rows.
C6_LineStartsAboveMargin ==
    /\ C6_PageCheck
    /\ lastType \in {"h1", "h2"} => drawnAt = <<LineStartY>>
    /\ lastType = "empty" => drawnAt = <<>>
    /\ lastType = "paragraph" =>
        /\ drawnAt # <<>>
        /\ drawnAt[1] \in {LineStartY, LineStartY + LineHeight}
        /\ \A i \in 1..(Len(drawnAt) - 1) :
                drawnAt[i + 1] \in {drawnAt[i], drawnAt[i] + LineHeight}

\* a paragraph that began a new page and wrapped onto a second row
C6_Witness ==
    /\ lastType = "paragraph" /\ pageCount = pagesBefore + 1
    /\ Len(drawnAt) >= 2 /\ drawnAt[1] = TopMargin /\ drawnAt[2] > drawnAt[1]

----------------------------------------------------------------------------
(* Claims about exporter selection and input validation (Spec) *)

\* the capital of a small letter of the recognised names
Capital(c) ==
    CASE c = "t" -> "T" [] c = "x" -> "X" [] c = "p" -> "P" [] c = "d" -> "D"
      [] c = "f" -> "F" [] c = "o" -> "O" [] c = "c" -> "C" [] OTHER -> c

\* the format name f is name in some letter case
IsName(f, name) ==
    /\ Len(f) = Len(name)
    /\ \A i \in 1..Len(f) : f[i] \in {name[i], Capital(name[i])}

TxtName == <<"t", "x", "t">>
PdfName == <<"p", "d", "f">>
DocxName == <<"d", "o", "c", "x">>

Validated(call) == call.status \notin {"nodom", "rejected"}

DownloadsOf(i) == {k \in 1..Len(downloads) : downloads[k].call = i}

\* C9: selection never fails: txt, pdf and docx in any letter case select the
\* plain-text, PDF and DOCX exporter, without a warning; any other name selects
\* the plain-text exporter with exactly one warning, and the export goes on to
\* deliver document.txt.
C9_Selection ==
    \A i \in 1..Len(calls) :
        LET call == calls[i]
        IN  Validated(call) =>
            /\ call.exporter \in {"TXTExporter", "PDFExporter", "DOCXExporter"}
            /\ IsName(call.format, TxtName) =>
                    call.exporter = "TXTExporter" /\ call.errors = 0
            /\ IsName(call.format, PdfName) =>
                    call.exporter = "PDFExporter" /\ call.errors = 0
            /\ IsName(call.format, DocxName) =>
                    call.exporter = "DOCXExporter" /\ call.errors = 0
            /\ (~IsName(call.format, TxtName) /\ ~IsName(call.format, PdfName)
                    /\ ~IsName(call.format, DocxName)) =>
                    /\ call.exporter = "TXTExporter" /\ call.errors = 1
                    /\ call.status = "done"
                    /\ \E k \in DownloadsOf(i) : downloads[k].name = "document.txt"

\* an export as "rtf" has fallen back to plain text, and an export as "TXT" or
\* "DOCX" has selected its exporter
C9_Witness ==
    /\ \E i \in 1..Len(calls) :
        /\ calls[i].format = <<"r", "t", "f">> /\ calls[i].errors = 1
        /\ \E k \in DownloadsOf(i) : downloads[k].name = "document.txt"
    /\ \E i \in 1..Len(calls) :
        /\ calls[i].format \in {<<"T", "X", "T">>, <<"D", "O", "C", "X">>}
        /\ Validated(calls[i])

\* a content of white space only, or empty
WhitespaceOnly(c) == \A p \in 1..Len(c) : IsSpace(c[p])

\* C10: an export of an empty or whitespace-only content is rejected before the
\* core: no factory, no exporter, no export call, no file; and every content an
\* exporter is given is non-empty and trimmed.
C10_BlankRejected ==
    \A i \in 1..Len(calls) :
        LET call == calls[i]
        IN  /\ (call.status # "nodom" /\ WhitespaceOnly(call.content)) =>
                /\ call.status = "rejected"
                /\ call.factory = "none" /\ call.exporter = "none"
                /\ DownloadsOf(i) = {}
            /\ call.exporter # "none" =>
                /\ call.exported # <<>>
                /\ ~IsSpace(call.exported[1])
                /\ ~IsSpace(call.exported[Len(call.exported)])
                /\ call.exported = Trimmed(call.content)

\* a whitespace-only content has been rejected, and a content with white space
\* around it has reached an exporter
C10_Witness ==
    /\ \E i \in 1..Len(calls) :
        calls[i].status = "rejected" /\ calls[i].content # <<>>
    /\ \E i \in 1..Len(calls) :
        calls[i].exporter # "none" /\ calls[i].exported # calls[i].content

\* ---------------------------------------------------------------------------
\* Claims about the packaging step of the DOCX export (Spec)
\* ---------------------------------------------------------------------------

\* the calls that are in progress: suspended at await Packer.toBlob(doc)
InProgress == {i \in 1..Len(calls) : calls[i].status = "packaging"}

Failed == {i \in 1..Len(calls) : calls[i].status = "failed"}

\* the downloads of call i after the step
DownloadsOfNext(i) == {k \in 1..Len(downloads') : downloads'[k].call = i}

\* a failed export is a DOCX export without a file, an export that is still
\* packaging has no file yet, and a document.docx belongs to a DOCX export
\* whose packaging has succeeded
C11_State ==
    \A i \in 1..Len(calls) :
        /\ calls[i].status = "failed" =>
                calls[i].exporter = "DOCXExporter" /\ DownloadsOf(i) = {}
        /\ calls[i].status = "packaging" => DownloadsOf(i) = {}
        /\ \A k \in DownloadsOf(i) :
                downloads[k].name = "document.docx" =>
                    calls[i].status = "done" /\ calls[i].exporter = "DOCXExporter"

\* a failed export is never taken up again, and while an export has failed a
\* new export starts as it would without the failure
C11_Step ==
    /\ \A i \in Failed : calls'[i] = calls[i] /\ DownloadsOfNext(i) = {}
    /\ (Failed # {} /\ Len(calls') > Len(calls)) =>
        LET new == calls'[Len(calls')]
        IN  /\ new.status # "failed"
            /\ new.status = "packaging" <=> new.exporter = "DOCXExporter"
            /\ new.exporter \in {"TXTExporter", "PDFExporter"} =>
                    new.status = "done" /\ DownloadsOfNext(Len(calls')) # {}
            /\ (~WhitespaceOnly(new.content) /\ new.status # "nodom") =>
                    new.exporter # "none"

\* C11: when the packaging of a DOCX export fails, that export ends as failed
\* with no file handed to the download and is not retried; a document.docx is
\* delivered only after the packaging has succeeded; and an export that follows
\* a failed one proceeds as if the failure had not happened.
C11_PackagingFailure == [](C11_State) /\ [][C11_Step]_vars

\* a DOCX export has failed, and the DOCX export after it has delivered its
\* document.docx
C11_Witness ==
    \E i, j \in 1..Len(calls) :
        /\ i < j
        /\ calls[i].status = "failed" /\ DownloadsOf(i) = {}
        /\ calls[j].status = "done" /\ calls[j].exporter = "DOCXExporter"
        /\ \E k \in DownloadsOf(j) : downloads[k].name = "document.docx"

\* ---------------------------------------------------------------------------
\* Claims about overlapping export requests (Spec)
\* ---------------------------------------------------------------------------

\* C12 as stated: under any sequence of clicks an export request has run to
\* completion, packaging and delivery included, before the next one is
\* started: never are two export requests in progress at the same time.
C12_OneAtATime == Cardinality(InProgress) <= 1

\* the file an export of text c by the given exporter delivers
FileOf(exporter, c) ==
    CASE exporter = "TXTExporter" -> TxtFile(c)
      [] exporter = "PDFExporter" -> PdfFile(c)
      [] OTHER -> DocxFile(c)

\* only a DOCX export is ever in progress, and every delivered file is the one
\* its own call has built, at most one for each call
C12_State ==
    /\ \A i \in InProgress : calls[i].exporter = "DOCXExporter"
    /\ \A k \in 1..Len(downloads) :
        LET i == downloads[k].call
        IN  /\ i \in 1..Len(calls)
            /\ downloads[k] = [call |-> i] @@ FileOf(calls[i].exporter, calls[i].exported)
    /\ \A i \in 1..Len(calls) : Cardinality(DownloadsOf(i)) <= 1

\* a step starts one call or settles one call in progress, and leaves every
\* other call and every file delivered before as they were
C12_Step ==
    /\ \A k \in 1..Len(downloads) :
        Len(downloads') >= k /\ downloads'[k] = downloads[k]
    /\ \/ /\ Len(calls') = Len(calls) + 1
          /\ \A i \in 1..Len(calls) : calls'[i] = calls[i]
          /\ calls'[Len(calls')].status \in {"nodom", "rejected", "done", "packaging"}
       \/ /\ Len(calls') = Len(calls)
          /\ \E i \in InProgress :
                /\ \E st \in {"done", "failed"} :
                        calls'[i] = [calls[i] EXCEPT !.status = st]
                /\ \A j \in 1..Len(calls) : j # i => calls'[j] = calls[j]
                /\ \A k \in Len(downloads) + 1..Len(downloads') :
                        downloads'[k].call = i

\* C12, amended: a TXT or PDF export completes within the click that starts
\* it; a DOCX export is suspended at its packaging step, and clicks handled
\* meanwhile start further exports, so several DOCX exports can be in progress
\* at once; the exports share nothing: each step starts or settles one export
\* and leaves the others and the files already delivered unchanged, and every
\* file is the one its own export has built.
C12_Independent == [](C12_State) /\ [][C12_Step]_vars

\* two DOCX exports of different contents were in progress together, and the
\* later one has delivered its file while the earlier one is still packaging
C12_Witness ==
    \E i, j \in 1..Len(calls) :
        /\ i < j
        /\ calls[i].status = "packaging"
        /\ calls[j].status = "done" /\ calls[j].exporter = "DOCXExporter"
        /\ calls[i].exported # calls[j].exported
        /\ DownloadsOf(j) # {}

\* ---------------------------------------------------------------------------
\* Termination of an export request and of the scan it runs (SpecFair)
\* ---------------------------------------------------------------------------

\* the paragraph texts the scan is started on here: the short ones
FairTexts == {t \in ParagraphTexts : Len(t) <= MaxFairLen}

\* a call of parseInlineFormatting(text): segments = [], remaining = text
ScanStart(i, t) ==
    /\ scanPc = "off"
    /\ impl' = i
    /\ text' = t
    /\ remaining' = t
    /\ segments' = <<>>
    /\ scanPc' = "loop"
    /\ lastStep' = "none"
    /\ UNCHANGED parseVars
    /\ UNCHANGED pdfVars
    /\ UNCHANGED appVars

\* The page, or one run of the scan, under the progress the runtime gives:
\* the scan is synchronous code, so its loop goes on until it returns, and the
\* promise of Packer.toBlob settles, so every suspended handleExport is
\* resumed.  Clicks are not forced.
NextFair ==
    \/ ScanIdle /\ Next
    \/ ScanIdle /\ AppIdle /\ \E i \in Impls, t \in FairTexts : ScanStart(i, t)
    \/ NextScan

SpecFair ==
    /\ Init
    /\ [][NextFair]_vars
    /\ WF_vars(NextScan)
    /\ \A i \in 1..MaxClicks : WF_vars(PackerReject(i) \/ PackerResolve(i))

\* the name of the file the exporter delivers
ArtifactName(exporter) ==
    CASE exporter = "TXTExporter" -> "document.txt"
      [] exporter = "PDFExporter" -> "document.pdf"
      [] OTHER -> "document.docx"

\* call i has completed with exactly one file, named after its exporter
Completed(i) ==
    /\ calls[i].status = "done"
    /\ Cardinality(DownloadsOf(i)) = 1
    /\ \A k \in DownloadsOf(i) : downloads[k].name = ArtifactName(calls[i].exporter)

\* call i has failed outright
FailedOutright(i) == calls[i].status = "failed" /\ DownloadsOf(i) = {}

Requested(i) == i \in 1..Len(calls) /\ Validated(calls[i])

Settled(i) == i \in 1..Len(calls) /\ (Completed(i) \/ FailedOutright(i))

\* an iteration of the scan shortens the unconsumed text or leaves the loop
C13_ScanStep ==
    scanPc = "loop" => Len(remaining') < Len(remaining) \/ scanPc' = "done"

Emphasis(bold, italic) ==
    IF bold THEN "Bold" ELSE IF italic THEN "Italic" ELSE "None"

\* the (text, emphasis) sequence of the segments of PDFExporter, of the runs
\* of DOCXExporter
PdfSegments(segs) ==
    [k \in 1..Len(segs) |->
        [text |-> segs[k].text, emphasis |-> Emphasis(segs[k].bold, segs[k].italic)]]

DocxSegments(runs) ==
    [k \in 1..Len(runs) |->
        [text |-> runs[k].text, emphasis |-> Emphasis(runs[k].bold, runs[k].italics)]]

\* the parsed lines of PDFExporter and the Paragraph nodes of DOCXExporter
\* agree line by line on the kind, and on the segments of a Paragraph line
ParsersAgree(lines, paras) ==
    /\ Len(lines) = Len(paras)
    /\ \A i \in 1..Len(lines) :
        /\ PdfKind(lines[i]) = DocxKind(paras[i])
        /\ PdfKind(lines[i]) = "Paragraph" =>
            PdfSegments(PdfParseInlineFormatting(lines[i].text))
                = DocxSegments(paras[i].children)

====
